---- MODULE Spec2Model ----
(***************************************************************************)
(* Align Anything (src/extension.js): a model of the three commands        *)
(* alignAssignmentOperators, alignComments and alignCustomPattern, of the  *)
(* pattern resolver createRegExp and of the host collaborators they use    *)
(* (the input box, the error messages, the active editor and its edits).   *)
(*                                                                         *)
(* Text is a sequence of one-character strings.  Lines, columns and        *)
(* selection coordinates are 0-based as in the host API; sequences are     *)
(* 1-based, so character c of a line is element c + 1.                     *)
(***************************************************************************)
EXTENDS Integers, Sequences, FiniteSets, TLC

(***************************************************************************)
(* Bounds of the explored inputs.                                          *)
(***************************************************************************)
MaxLineLen == 4

MaxLines == 3

MaxSelections == 2

MaxInvocations == 2

(***************************************************************************)
(* Small helpers.                                                          *)
(***************************************************************************)
Min(S) == CHOOSE x \in S : \A y \in S : x <= y

Max(S) == CHOOSE x \in S : \A y \in S : x >= y

Clamp(n, lo, hi) == IF n < lo THEN lo ELSE IF n > hi THEN hi ELSE n

Range(s) == {s[i] : i \in 1..Len(s)}

Strings(A, n) == UNION {[1..k -> A] : k \in 0..n}

\* String.prototype.substring(start, end): both indices are clamped to
\* [0, length] and swapped when start > end; the result is [start, end).
substring(s, start, end) ==
    LET a == Clamp(start, 0, Len(s))
        b == Clamp(end, 0, Len(s))
    IN  SubSeq(s, Min({a, b}) + 1, Max({a, b}))

\* ' '.repeat(n)
repeat(n) == [i \in 1..n |-> " "]

(***************************************************************************)
(* The regular-expression engine, for the sources the commands use:        *)
(* literal characters, escaped characters, '.', bracketed character        *)
(* classes and top-level alternation.  A '(' in these sources is never     *)
(* closed and a leading quantifier has nothing to repeat; the engine       *)
(* rejects both with a SyntaxError.  A compiled pattern is a sequence of   *)
(* alternatives, each a sequence of character classes.                     *)
(***************************************************************************)
Null == [isNull |-> TRUE, alts |-> <<>>]

Literal(c) == [neg |-> FALSE, set |-> {c}]

AnyChar == [neg |-> TRUE, set |-> {}]

Accepts(class, c) == IF class.neg THEN c \notin class.set ELSE c \in class.set

\* Index of the ']' closing a class opened before position i, or 0.
ClassEnd(src, i) ==
    LET closing == {j \in i..Len(src) : src[j] = "]"}
    IN  IF closing = {} THEN 0 ELSE Min(closing)

RECURSIVE Parse(_, _, _, _)
Parse(src, i, alts, cur) ==
    IF i > Len(src) THEN [isNull |-> FALSE, alts |-> Append(alts, cur)]
    ELSE LET c == src[i] IN
         CASE c = "\\" ->
                IF i = Len(src) THEN Null
                ELSE Parse(src, i + 2, alts, Append(cur, Literal(src[i + 1])))
           [] c = "|" -> Parse(src, i + 1, Append(alts, cur), <<>>)
           [] c = "." -> Parse(src, i + 1, alts, Append(cur, AnyChar))
           [] c = "[" ->
                LET j == ClassEnd(src, i + 1) IN
                IF j = 0 THEN Null
                ELSE Parse(src, j + 1, alts,
                           Append(cur, [neg |-> FALSE,
                                        set |-> {src[k] : k \in (i + 1)..(j - 1)}]))
           [] c \in {"(", ")"} -> Null
           [] c \in {"*", "+", "?"} /\ cur = <<>> -> Null
           [] OTHER -> Parse(src, i + 1, alts, Append(cur, Literal(c)))

\* new RegExp(string): the compiled pattern, or Null when the constructor
\* throws a SyntaxError.
NewRegExp(string) == Parse(string, 1, <<>>, <<>>)

MatchAlt(alt, text, p) ==
    /\ p + Len(alt) <= Len(text)
    /\ \A k \in 1..Len(alt) : Accepts(alt[k], text[p + k])

MatchAt(regexp, text, p) ==
    \E a \in 1..Len(regexp.alts) : MatchAlt(regexp.alts[a], text, p)

\* RegExp.prototype.exec(text).index: the column of the leftmost match, or
\* -1 when exec returns null.
exec(regexp, text) ==
    LET hits == {p \in 0..Len(text) : MatchAt(regexp, text, p)}
    IN  IF hits = {} THEN -1 ELSE Min(hits)

(***************************************************************************)
(* The comment-marker table.                                               *)
(***************************************************************************)
COMMENT_PATTERNS ==
    "coffeescript"       :> << "#" >> @@
    "dockercompose"      :> << "#" >> @@
    "dockerfile"         :> << "#" >> @@
    "elixir"             :> << "#" >> @@
    "gdscript"           :> << "#" >> @@
    "ignore"             :> << "#" >> @@
    "julia"              :> << "#" >> @@
    "makefile"           :> << "#" >> @@
    "perl"               :> << "#" >> @@
    "powershell"         :> << "#" >> @@
    "python"             :> << "#" >> @@
    "r"                  :> << "#" >> @@
    "raku"               :> << "#" >> @@
    "ruby"               :> << "#" >> @@
    "shellscript"        :> << "#" >> @@
    "ssh_config"         :> << "#" >> @@
    "yaml"               :> << "#" >> @@
    "html"               :> << "<", "!", "-", "-" >> @@
    "markdown"           :> << "<", "!", "-", "-" >> @@
    "php"                :> << "<", "!", "-", "-" >> @@
    "razor"              :> << "<", "!", "-", "-" >> @@
    "xml"                :> << "<", "!", "-", "-" >> @@
    "xsl"                :> << "<", "!", "-", "-" >> @@
    "ada"                :> << "-", "-", "|", "/", "\\", "*" >> @@
    "lua"                :> << "-", "-", "|", "/", "\\", "*" >> @@
    "haskell"            :> << "-", "-", "|", "/", "\\", "*" >> @@
    "sql"                :> << "-", "-", "|", "/", "\\", "*" >> @@
    "sqlite"             :> << "-", "-", "|", "/", "\\", "*" >> @@
    "bibtex"             :> << "%" >> @@
    "erlang"             :> << "%" >> @@
    "latex"              :> << "%" >> @@
    "matlab"             :> << "%" >> @@
    "tex"                :> << "%" >> @@
    "gdresource"         :> << ";" >> @@
    "gdscene"            :> << ";" >> @@
    "ini"                :> << ";" >> @@
    "properties"         :> << ";" >> @@
    "fsharp"             :> << "/", "/" >> @@
    "shaderlab"          :> << "/", "/" >> @@
    "bat"                :> << "@", "[", "r", "R", "]", "[", "e", "E", "]", "[", "m", "M", "]" >> @@
    "css"                :> << "/", "\\", "*" >> @@
    "clojure"            :> << ";", ";" >> @@
    "handlebars"         :> << "{", "{", "!", "-", "-" >> @@
    "jade"               :> << "/", "/", "-" >> @@
    "ocaml"              :> << "\\", "(", "\\", "*" >> @@
    "prolog"             :> << "%", "|", "/", "\\", "*" >> @@
    "restructuredtext"   :> << ".", "." >> @@
    "vb"                 :> << "'" >>

\* A fallback matching a single '/' or '*'.
DefaultCommentPatternBare == << "[", "/", "*", "]" >>

\* The pattern alignComments falls back to for an unlisted language.
DefaultCommentPattern == << "/", "[", "/", "*", "]" >>

\* COMMENT_PATTERNS.get(languageId), with the fallback of alignComments.
CommentPattern(id) ==
    IF id \in DOMAIN COMMENT_PATTERNS THEN COMMENT_PATTERNS[id]
    ELSE DefaultCommentPattern

\* The pattern alignAssignmentOperators passes on.
AssignmentPattern == << " ", "=", " " >>

(***************************************************************************)
(* Values of the host API.                                                 *)
(***************************************************************************)
Position(line, character) == [line |-> line, character |-> character]

NewRange(startLine, startChar, endLine, endChar) ==
    [start |-> Position(startLine, startChar), end |-> Position(endLine, endChar)]

\* Selection.isEmpty
isEmpty(selection) == selection.start = selection.end

\* document.lineAt(line).text
lineAt(document, line) == document[line + 1]

\* The argument a command receives: a string, undefined (command palette)
\* or another JSON value from the key bindings.
Str(string) == [type |-> "string", value |-> string]

Undefined == [type |-> "undefined", value |-> <<>>]

NonString == [type |-> "number", value |-> <<>>]

\* vscode.window.showErrorMessage(...): the failure shown and, for a
\* duplicate line, the 1-based line number in the message.
Message(kind, line) == [kind |-> kind, line |-> line]

\* TextEditorEdit.insert(position, text) applied to the buffer.
Insert(document, position, text) ==
    LET old == lineAt(document, position.line)
    IN  [document EXCEPT ![position.line + 1] =
            substring(old, 0, position.character) \o text
                \o substring(old, position.character, Len(old))]

(***************************************************************************)
(* Explored inputs.                                                        *)
(***************************************************************************)
AssignmentAlphabet == {" ", "="}

CommentAlphabet == {"/", "*"}

\* Documents whose content varies, aligned as a whole (a single empty
\* cursor): one or two lines over one of the alphabets.
AssignmentDocuments ==
    LET lines == Strings(AssignmentAlphabet, MaxLineLen)
    IN  {<<x>> : x \in lines} \cup {<<x, y>> : x, y \in lines}

CommentDocuments ==
    LET lines == Strings(CommentAlphabet, MaxLineLen)
    IN  {<<x>> : x \in lines} \cup {<<x, y>> : x, y \in lines}

Cursor == << NewRange(0, 0, 0, 0) >>

\* The document whose selections vary.
GeometryLines == << <<"=", "=">>, <<"a", "a", "=">>, <<"=">> >>

GeometryDocument == [i \in 1..MaxLines |-> GeometryLines[((i - 1) % 3) + 1]]

\* An empty cursor on each line; the column of a cursor is never read.
CursorsOf(document) == {NewRange(l, 0, l, 0) : l \in 0..(Len(document) - 1)}

\* Every selection of a document: an empty cursor on a line or a non-empty
\* span between two positions of the document.
SelectionsOf(document) ==
    LET valid == {p \in {Position(l, c) : l \in 0..(Len(document) - 1),
                                          c \in 0..MaxLineLen} :
                    p.character <= Len(lineAt(document, p.line))}
        before(p, q) == \/ p.line < q.line
                        \/ p.line = q.line /\ p.character < q.character
    IN  CursorsOf(document)
            \cup {[start |-> pq[1], end |-> pq[2]] :
                    pq \in {x \in valid \X valid : before(x[1], x[2])}}

\* The selections that are combined with each other: the cursors and, from
\* each line to each line at or after it, the span of the full lines and
\* the span that leaves out the first and the last character.
CombinedSelectionsOf(document) ==
    LET last == Len(document) - 1
        full == {NewRange(a, 0, b, Len(lineAt(document, b))) :
                    a \in 0..last, b \in 0..last}
        inner == {NewRange(a, 1, b, Len(lineAt(document, b)) - 1) :
                    a \in 0..last, b \in 0..last}
    IN  CursorsOf(document)
            \cup ((full \cup inner) \cap SelectionsOf(document))

SelectionSets(document) ==
    {<<x>> : x \in SelectionsOf(document)}
        \cup UNION {[1..n -> CombinedSelectionsOf(document)] : n \in 2..MaxSelections}

LanguageIds == {"css", "javascript"}

CustomArgs == {Str(<<" ">>), Str(<<"=">>), Str(<<"(">>), Undefined, NonString}

PromptInputs == {Str(<<"=">>), Str(<<"(">>), Undefined}

(***************************************************************************)
(* State.                                                                  *)
(***************************************************************************)
VARIABLES
    editor,         \* vscode.window.activeTextEditor is defined
    doc,            \* editor.document: the lines of the buffer
    languageId,     \* editor.document.languageId
    selections,     \* editor.selections
    pc,             \* where the running command stands
    pattern,        \* const pattern of alignCustomPattern
    ranges,         \* const ranges
    rangeIdx,       \* the range the match loop is in
    line,           \* the line the match loop is at
    positions,      \* const positions
    rightmostChar,  \* let rightmostChar
    posIdx,         \* the position the edit loop is at
    messages,       \* error messages shown by this invocation
    prompts,        \* input boxes shown by this invocation
    edits,          \* insertions issued by this invocation
    scanned,        \* lines read by the match loop of this invocation
    log,            \* the steps of this invocation, in order
    outcome,        \* how this invocation ended
    command,        \* the command of this invocation
    json,           \* the argument of this invocation
    docBefore,      \* the buffer when this invocation started
    invocation,     \* number of invocations started
    first           \* pattern, ranges and edits of the first invocation

vars == << editor, doc, languageId, selections, pc, pattern, ranges, rangeIdx,
           line, positions, rightmostChar, posIdx, messages, prompts, edits,
           scanned, log, outcome, command, json, docBefore, invocation, first >>

NoFirst == [pattern |-> Null, edits |-> <<>>, selections |-> <<>>]

Init ==
    /\ \/ /\ editor = FALSE
          /\ doc = << <<>> >>
          /\ selections = Cursor
          /\ languageId = "javascript"
       \/ /\ editor = TRUE
          /\ doc \in AssignmentDocuments
          /\ selections = Cursor
          /\ languageId = "javascript"
       \/ /\ editor = TRUE
          /\ doc \in CommentDocuments
          /\ selections = Cursor
          /\ languageId \in LanguageIds
       \/ /\ editor = TRUE
          /\ doc = GeometryDocument
          /\ selections \in SelectionSets(doc)
          /\ languageId = "javascript"
    /\ pc = "idle"
    /\ pattern = Null
    /\ ranges = <<>>
    /\ rangeIdx = 0
    /\ line = 0
    /\ positions = <<>>
    /\ rightmostChar = -1
    /\ posIdx = 0
    /\ messages = <<>>
    /\ prompts = 0
    /\ edits = <<>>
    /\ scanned = <<>>
    /\ log = <<>>
    /\ outcome = ""
    /\ command = ""
    /\ json = Undefined
    /\ docBefore = doc
    /\ invocation = 0
    /\ first = NoFirst

(***************************************************************************)
(* createRegExp.                                                           *)
(***************************************************************************)
\* compile with the catch block swallowing the error.
compileSilently(string) ==
    LET regexp == NewRegExp(string)
    IN  IF regexp.isNull
        THEN [pattern |-> Null, failure |-> "InvalidPattern", messages |-> <<>>]
        ELSE [pattern |-> regexp, failure |-> "", messages |-> <<>>]

\* try { return new RegExp(string) } catch { showErrorMessage; return null }
compile(string) ==
    LET regexp == NewRegExp(string)
    IN  IF regexp.isNull
        THEN [pattern |-> Null, failure |-> "InvalidPattern",
              messages |-> << Message("InvalidPattern", 0) >>]
        ELSE [pattern |-> regexp, failure |-> "", messages |-> <<>>]

\* createRegExp asking for a pattern whenever the argument is not a string.
createRegExpAskingAnyway(arg) ==
    IF arg.type = "string"
    THEN [await |-> FALSE] @@ compile(arg.value)
    ELSE [await |-> TRUE, pattern |-> Null, failure |-> "", messages |-> <<>>]

\* createRegExp(json) up to its return or to its await of the input box:
\* the pattern, the messages shown and, when it returns null, why.
createRegExp(arg) ==
    IF arg.type = "string"
    THEN [await |-> FALSE] @@ compile(arg.value)
    ELSE IF arg.type = "undefined"
    THEN [await |-> TRUE, pattern |-> Null, failure |-> "", messages |-> <<>>]
    ELSE [await |-> FALSE, pattern |-> Null, failure |-> "InvalidArgument",
          messages |-> << Message("InvalidArgument", 0) >>]

\* createRegExp after showInputBox has resolved to input.
createRegExpResume(input) ==
    IF input.type = "undefined"
    THEN [pattern |-> Null, failure |-> "cancelled", messages |-> <<>>]
    ELSE compile(input.value)

(***************************************************************************)
(* The selection normalizer of alignCustomPattern.                         *)
(***************************************************************************)
NoError == Message("", 0)

Failed(error) == [error |-> error, ranges |-> <<>>, lines |-> {}]

\* The claimed lines never consulted.
neverClaimed(l, lines) == FALSE

\* lines.has(line)
alreadyClaimed(l, lines) == l \in lines

\* The message naming the 0-based line index.
duplicateMessageZeroBased(l) == Message("DuplicateLineSelection", l)

\* `Only 1 selection per line is allowed (line ${line + 1})`
duplicateMessage(l) == Message("DuplicateLineSelection", l + 1)

\* The for loop over the selections, from selection i on, and the size
\* check after it.
RECURSIVE eachSelection(_, _, _, _, _)
eachSelection(document, sels, i, lines, rs) ==
    IF i > Len(sels)
    THEN IF Cardinality(lines) < 2
         THEN Failed(Message("InsufficientSelection", 0))
         ELSE [error |-> NoError, ranges |-> rs, lines |-> lines]
    ELSE LET selection == sels[i] IN
         IF isEmpty(selection)
         THEN LET l == selection.start.line
                  lastChar == Len(lineAt(document, l))
              IN  IF alreadyClaimed(l, lines)
                  THEN Failed(duplicateMessage(l))
                  ELSE eachSelection(document, sels, i + 1, lines \cup {l},
                                     Append(rs, NewRange(l, 0, l, lastChar)))
         ELSE LET span == selection.start.line .. selection.end.line
                  taken == {l \in span : alreadyClaimed(l, lines)}
              IN  IF taken # {}
                  THEN Failed(duplicateMessage(Min(taken)))
                  ELSE eachSelection(document, sels, i + 1, lines \cup span,
                                     Append(rs, [start |-> selection.start,
                                                 end |-> selection.end]))

\* "Get the selected ranges or the whole document".
selectedRanges(document, sels) ==
    IF Len(sels) = 1 /\ isEmpty(sels[1])
    THEN IF Len(document) < 2
         THEN Failed(Message("InsufficientLines", 0))
         ELSE LET lastLine == Len(document) - 1
                  lastChar == Len(lineAt(document, lastLine))
              IN  [error |-> NoError,
                   ranges |-> << NewRange(0, 0, lastLine, lastChar) >>,
                   lines |-> 0..lastLine]
    ELSE eachSelection(document, sels, 1, {}, <<>>)

(***************************************************************************)
(* The match locator of alignCustomPattern.                                *)
(***************************************************************************)
\* "Get the selected part": the text matched on line l of range r and the
\* column it starts at.
selectedText(r, l, fullText) ==
    IF r.start.line = r.end.line
    THEN [text |-> substring(fullText, r.start.character, r.end.character),
          selectionStartChar |-> r.start.character]
    ELSE IF l = r.start.line
    THEN [text |-> substring(fullText, r.start.character, Len(fullText)),
          selectionStartChar |-> r.start.character]
    ELSE IF l = r.end.line
    THEN [text |-> substring(fullText, 0, r.end.character),
          selectionStartChar |-> 0]
    ELSE [text |-> fullText, selectionStartChar |-> 0]

\* The match index recorded without re-basing it to the full line.
matchCharInSelection(regexp, r, l, fullText) ==
    exec(regexp, selectedText(r, l, fullText).text)

\* "Find the pattern or skip": the column recorded for line l, or -1.
matchChar(regexp, r, l, fullText) ==
    LET part == selectedText(r, l, fullText)
        index == exec(regexp, part.text)
    IN  IF index = -1 THEN -1 ELSE index + part.selectionStartChar

\* The last match column kept instead of the greatest.
rightmostLast(current, char) == char

\* if (char > rightmostChar) rightmostChar = char
rightmost(current, char) == IF char > current THEN char ELSE current

\* The loop test stopping one line early.
hasNextLineExclusive(l, r) == l + 1 < r.end.line

\* line++ followed by the loop test line < range.end.line + 1
hasNextLine(l, r) == l + 1 < r.end.line + 1

\* "Fail if multiple matches weren't found".
matchFailure(n) ==
    IF n = 0 THEN "NoMatchesFound"
    ELSE IF n = 1 THEN "SingleMatchFound"
    ELSE ""

\* One space too many.
spaceCountPlusOne(M, position) == M - position.character + 1

\* const spaceCount = rightmostChar - position.character
spaceCount(M, position) == M - position.character

(***************************************************************************)
(* Commands.                                                               *)
(***************************************************************************)
\* The user runs a command on the untouched editor, or runs again the
\* command that has just aligned the buffer.
CanInvoke(name) ==
    /\ invocation < MaxInvocations
    /\ \/ pc = "idle"
       \/ pc = "done" /\ outcome = "aligned" /\ command = name

\* A command starts: nothing of the previous invocation is kept but the
\* buffer and the selections.
Fresh ==
    /\ invocation' = invocation + 1
    /\ first' = IF invocation = 0 THEN NoFirst
                ELSE [pattern |-> pattern, edits |-> edits, selections |-> selections]
    /\ docBefore' = doc
    /\ ranges' = <<>>
    /\ rangeIdx' = 0
    /\ line' = 0
    /\ positions' = <<>>
    /\ rightmostChar' = -1
    /\ posIdx' = 0
    /\ edits' = <<>>
    /\ scanned' = <<>>
    /\ UNCHANGED << editor, doc, languageId, selections >>

\* alignCustomPattern(possiblePatternString) up to its first await.
enter(arg) ==
    LET r == createRegExp(arg) IN
    /\ json' = arg
    /\ pattern' = r.pattern
    /\ messages' = r.messages
    /\ outcome' = r.failure
    /\ prompts' = IF r.await THEN 1 ELSE 0
    /\ log' = IF r.await THEN << "showInputBox" >> ELSE <<>>
    /\ pc' = IF r.await THEN "prompt" ELSE "resolved"

alignAssignmentOperators ==
    /\ CanInvoke("alignAssignmentOperators")
    /\ Fresh
    /\ command' = "alignAssignmentOperators"
    /\ enter(Str(AssignmentPattern))

alignComments ==
    /\ CanInvoke("alignComments")
    /\ Fresh
    /\ command' = "alignComments"
    /\ IF ~editor
       THEN /\ json' = Undefined
            /\ pattern' = Null
            /\ messages' = << Message("NoActiveDocument", 0) >>
            /\ outcome' = "NoActiveDocument"
            /\ prompts' = 0
            /\ log' = <<>>
            /\ pc' = "done"
       ELSE enter(Str(CommentPattern(languageId)))

alignCustomPattern ==
    /\ CanInvoke("alignCustomPattern")
    /\ Fresh
    /\ command' = "alignCustomPattern"
    /\ \E arg \in CustomArgs :
          /\ invocation > 0 => arg = json
          /\ enter(arg)

\* The input box closes: createRegExp resumes and returns.
showInputBox ==
    /\ pc = "prompt"
    /\ \E input \in PromptInputs :
         LET r == createRegExpResume(input) IN
         /\ pattern' = r.pattern
         /\ outcome' = r.failure
         /\ messages' = messages \o r.messages
    /\ log' = Append(log, "inputBoxClosed")
    /\ pc' = "resolved"
    /\ UNCHANGED << editor, doc, languageId, selections, ranges, rangeIdx, line,
                    positions, rightmostChar, posIdx, prompts, edits, scanned,
                    command, json, docBefore, invocation, first >>

\* alignCustomPattern from the pattern check to the end of the selection
\* normalizer.
getSelectedRanges ==
    /\ pc = "resolved"
    /\ IF pattern = Null
       THEN /\ pc' = "done"
            /\ UNCHANGED << messages, outcome, log, ranges, rangeIdx, line >>
       ELSE IF ~editor
       THEN /\ messages' = Append(messages, Message("NoActiveDocument", 0))
            /\ outcome' = "NoActiveDocument"
            /\ pc' = "done"
            /\ UNCHANGED << log, ranges, rangeIdx, line >>
       ELSE LET r == selectedRanges(doc, selections) IN
            /\ log' = Append(log, "selections")
            /\ IF r.error # NoError
               THEN /\ messages' = Append(messages, r.error)
                    /\ outcome' = r.error.kind
                    /\ pc' = "done"
                    /\ UNCHANGED << ranges, rangeIdx, line >>
               ELSE /\ ranges' = r.ranges
                    /\ rangeIdx' = 1
                    /\ line' = r.ranges[1].start.line
                    /\ pc' = "scan"
                    /\ UNCHANGED << messages, outcome >>
    /\ UNCHANGED << editor, doc, languageId, selections, pattern, positions,
                    rightmostChar, posIdx, prompts, edits, scanned, command,
                    json, docBefore, invocation, first >>

\* The match loop padding a line as soon as a match to its right is known.
findPositionEager ==
    /\ pc = "scan"
    /\ LET r == ranges[rangeIdx]
           char == matchChar(pattern, r, line, lineAt(doc, line))
           n == rightmostChar - char
       IN  /\ IF char = -1
              THEN UNCHANGED << positions, rightmostChar >>
              ELSE /\ rightmostChar' = rightmost(rightmostChar, char)
                   /\ positions' = Append(positions, Position(line, char))
           /\ IF char = -1 \/ n < 1
              THEN /\ log' = Append(log, "scan")
                   /\ UNCHANGED << doc, edits >>
              ELSE /\ doc' = Insert(doc, Position(line, char), repeat(n))
                   /\ edits' = Append(edits, [position |-> Position(line, char),
                                              text |-> repeat(n)])
                   /\ log' = log \o << "scan", "insert" >>
           /\ IF hasNextLine(line, r)
              THEN /\ line' = line + 1
                   /\ UNCHANGED << rangeIdx, pc >>
              ELSE IF rangeIdx < Len(ranges)
              THEN /\ rangeIdx' = rangeIdx + 1
                   /\ line' = ranges[rangeIdx + 1].start.line
                   /\ UNCHANGED pc
              ELSE /\ pc' = "count"
                   /\ UNCHANGED << rangeIdx, line >>
    /\ scanned' = Append(scanned, line)
    /\ UNCHANGED << editor, languageId, selections, pattern, ranges, posIdx,
                    messages, prompts, outcome, command, json, docBefore,
                    invocation, first >>

\* One iteration of "Each line in the selection(s)".
findPosition ==
    /\ pc = "scan"
    /\ LET r == ranges[rangeIdx]
           char == matchChar(pattern, r, line, lineAt(doc, line))
       IN  /\ IF char = -1
              THEN UNCHANGED << positions, rightmostChar >>
              ELSE /\ rightmostChar' = rightmost(rightmostChar, char)
                   /\ positions' = Append(positions, Position(line, char))
           /\ IF hasNextLine(line, r)
              THEN /\ line' = line + 1
                   /\ UNCHANGED << rangeIdx, pc >>
              ELSE IF rangeIdx < Len(ranges)
              THEN /\ rangeIdx' = rangeIdx + 1
                   /\ line' = ranges[rangeIdx + 1].start.line
                   /\ UNCHANGED pc
              ELSE /\ pc' = "count"
                   /\ UNCHANGED << rangeIdx, line >>
    /\ scanned' = Append(scanned, line)
    /\ log' = Append(log, "scan")
    /\ UNCHANGED << editor, doc, languageId, selections, pattern, ranges, posIdx,
                    messages, prompts, edits, outcome, command, json,
                    docBefore, invocation, first >>

\* "Fail if multiple matches weren't found".
failIfFewMatches ==
    /\ pc = "count"
    /\ log' = Append(log, "count")
    /\ LET failure == matchFailure(Len(positions)) IN
       IF failure # ""
       THEN /\ messages' = Append(messages, Message(failure, 0))
            /\ outcome' = failure
            /\ pc' = "done"
            /\ UNCHANGED posIdx
       ELSE /\ pc' = "edit"
            /\ posIdx' = 1
            /\ UNCHANGED << messages, outcome >>
    /\ UNCHANGED << editor, doc, languageId, selections, pattern, ranges,
                    rangeIdx, line, positions, rightmostChar, prompts, edits,
                    scanned, command, json, docBefore, invocation, first >>

\* One iteration of "Make the edits on each line"; the command ends after
\* the last one.  The buffer changes with no other party editing it, and
\* editor.selections stay as they were: a repeated command is run with the
\* same selections.
makeEdit ==
    /\ pc = "edit"
    /\ LET position == positions[posIdx]
           n == spaceCount(rightmostChar, position)
       IN  IF n < 1
           THEN UNCHANGED << doc, edits, log >>
           ELSE /\ doc' = Insert(doc, position, repeat(n))
                /\ edits' = Append(edits, [position |-> position, text |-> repeat(n)])
                /\ log' = Append(log, "insert")
    /\ IF posIdx < Len(positions)
       THEN /\ posIdx' = posIdx + 1
            /\ UNCHANGED << pc, outcome >>
       ELSE /\ pc' = "done"
            /\ outcome' = "aligned"
            /\ UNCHANGED posIdx
    /\ UNCHANGED << editor, languageId, selections, pattern, ranges, rangeIdx,
                    line, positions, rightmostChar, messages, prompts, scanned,
                    command, json, docBefore, invocation, first >>

Next ==
    \/ alignAssignmentOperators
    \/ alignComments
    \/ alignCustomPattern
    \/ showInputBox
    \/ getSelectedRanges
    \/ findPosition
    \/ failIfFewMatches
    \/ makeEdit

Spec == Init /\ [][Next]_vars

(***************************************************************************)
(* Vocabulary of the properties.                                           *)
(***************************************************************************)
Aligned == pc = "done" /\ outcome = "aligned"

\* The alignment column M: the maximum recorded match column.
AlignmentColumn == Max({positions[i].character : i \in 1..Len(positions)})

\* The range that covers line l.
RangeOf(l) ==
    ranges[CHOOSE k \in 1..Len(ranges) : ranges[k].start.line <= l /\ l <= ranges[k].end.line]

\* Line l lies wholly inside its range: the text matched is the full line.
WhollySelected(l) ==
    LET part == selectedText(RangeOf(l), l, lineAt(docBefore, l))
    IN  part.text = lineAt(docBefore, l) /\ part.selectionStartChar = 0

\* No match of the pattern contains a space character.
SpaceFree(regexp) ==
    \A a \in 1..Len(regexp.alts) :
        \A k \in 1..Len(regexp.alts[a]) : ~Accepts(regexp.alts[a][k], " ")

\* The line with n spaces put in at column c.
Padded(text, c, n) == substring(text, 0, c) \o repeat(n) \o substring(text, c, Len(text))

SecondPass ==
    /\ invocation = 2
    /\ pattern # Null
    /\ pattern = first.pattern
    /\ selections = first.selections

Failures ==
    {"InvalidPattern", "InvalidArgument", "NoActiveDocument", "InsufficientLines",
     "DuplicateLineSelection", "InsufficientSelection", "NoMatchesFound",
     "SingleMatchFound"}

\* The steps an invocation may have taken when it ends in a failure.
StepsBefore(failure) ==
    IF failure \in {"InvalidPattern", "InvalidArgument", "NoActiveDocument"}
    THEN {"showInputBox", "inputBoxClosed"}
    ELSE IF failure \in {"InsufficientLines", "DuplicateLineSelection",
                         "InsufficientSelection"}
    THEN {"showInputBox", "inputBoxClosed", "selections"}
    ELSE {"showInputBox", "inputBoxClosed", "selections", "scan", "count"}

C3_FailureTerminal ==
    /\ (pc = "done" /\ outcome \in Failures) =>
          /\ Len(messages) = 1
          /\ messages[1].kind = outcome
          /\ edits = <<>>
          /\ doc = docBefore
          /\ Range(log) \subseteq StepsBefore(outcome)
          /\ outcome = "NoMatchesFound" => Len(positions) = 0
          /\ outcome = "SingleMatchFound" => Len(positions) = 1
    /\ messages # <<>> =>
          /\ pc \in {"resolved", "done"}
          /\ outcome \in Failures
          /\ edits = <<>>
    /\ pc = "edit" => Len(positions) >= 2

C3_Witness ==
    /\ pc = "done"
    /\ outcome = "SingleMatchFound"
    /\ prompts = 1
    /\ Len(scanned) = 3

(***************************************************************************)
(* C4: when the argument is absent and the input box returns no input the  *)
(* invocation ends with no message, no selection read, no line scanned and *)
(* no insertion; the input box is shown once when the argument is absent   *)
(* and never otherwise.                                                    *)
(***************************************************************************)
C4_SilentCancel ==
    /\ prompts <= 1
    /\ json.type # "undefined" => prompts = 0 /\ "showInputBox" \notin Range(log)
    /\ (command = "alignCustomPattern" /\ json.type = "undefined") => prompts = 1
    /\ outcome = "cancelled" =>
          /\ json.type = "undefined"
          /\ pc \in {"resolved", "done"}
          /\ messages = <<>>
          /\ log = << "showInputBox", "inputBoxClosed" >>
          /\ scanned = <<>>
          /\ edits = <<>>
          /\ doc = docBefore

C4_Witness == pc = "done" /\ outcome = "cancelled" /\ prompts = 1

(***************************************************************************)
(* C5: when the selections are not a single empty cursor and, taken in     *)
(* order, claim some line a second time, the command fails with            *)
(* DuplicateLineSelection naming the 1-based number of the first line      *)
(* claimed twice, and no line is scanned or edited.                        *)
(***************************************************************************)
SingleCursor == Len(selections) = 1 /\ isEmpty(selections[1])

\* The lines the selections claim, in the order they claim them.
RECURSIVE ClaimOrder(_, _)
ClaimOrder(sels, i) ==
    IF i > Len(sels) THEN <<>>
    ELSE LET a == sels[i].start.line
             b == sels[i].end.line
         IN  [k \in 1..(b - a + 1) |-> a + k - 1] \o ClaimOrder(sels, i + 1)

\* The first line claimed a second time, or -1.
FirstDuplicate(claims) ==
    LET again == {j \in 1..Len(claims) : \E k \in 1..(j - 1) : claims[k] = claims[j]}
    IN  IF again = {} THEN -1 ELSE claims[Min(again)]

C5_DuplicateLine ==
    LET duplicate == FirstDuplicate(ClaimOrder(selections, 1)) IN
    ("selections" \in Range(log) /\ ~SingleCursor /\ duplicate # -1) =>
        /\ pc = "done"
        /\ outcome = "DuplicateLineSelection"
        /\ messages = << Message("DuplicateLineSelection", duplicate + 1) >>
        /\ scanned = <<>>
        /\ edits = <<>>
        /\ doc = docBefore

C5_Witness ==
    /\ pc = "done"
    /\ outcome = "DuplicateLineSelection"
    /\ Len(selections) = 2
    /\ selections[2].start.line = 0
    /\ messages[1].line = 2

(***************************************************************************)
(* C6: the match loop scans each line of the resolved line set once and no *)
(* other line: lines 0 to lastLine for a single empty cursor, the claimed  *)
(* lines otherwise; every recorded position is on one of these lines and   *)
(* no line has two recorded positions.                                     *)
(***************************************************************************)
ResolvedLines ==
    IF SingleCursor THEN 0..(Len(doc) - 1)
    ELSE UNION {selections[i].start.line .. selections[i].end.line :
                    i \in 1..Len(selections)}

Distinct(seq) == \A i, j \in 1..Len(seq) : i # j => seq[i] # seq[j]

ScanOver == pc \in {"count", "edit"} \/ (pc = "done" /\ "count" \in Range(log))

C6_ScannedLines ==
    /\ Distinct(scanned)
    /\ Range(scanned) \subseteq ResolvedLines
    /\ Distinct([i \in 1..Len(positions) |-> positions[i].line])
    /\ {positions[i].line : i \in 1..Len(positions)} \subseteq Range(scanned)
    /\ ScanOver => Range(scanned) = ResolvedLines /\ Cardinality(ResolvedLines) >= 2

C6_Witness ==
    /\ pc = "count"
    /\ Len(selections) = 2
    /\ ResolvedLines = {0, 2}
    /\ Len(positions) = 2

(***************************************************************************)
(* C7 as stated: for a language that is not in the table the match         *)
(* recorded on a line is the first '/' or '*' character of its text.       *)
(***************************************************************************)
FirstBareMarker(text) ==
    LET hits == {p \in 0..(Len(text) - 1) : text[p + 1] \in {"/", "*"}}
    IN  IF hits = {} THEN -1 ELSE Min(hits)

FirstCommentStart(text) ==
    LET hits == {p \in 0..(Len(text) - 2) :
                    text[p + 1] = "/" /\ text[p + 2] \in {"/", "*"}}
    IN  IF hits = {} THEN -1 ELSE Min(hits)

FallbackUsed ==
    /\ command = "alignComments"
    /\ editor
    /\ languageId \notin DOMAIN COMMENT_PATTERNS

\* The recorded positions are the ones Locate finds in the text matched on
\* each scanned line.
RecordedBy(Locate(_)) ==
    \A k \in 1..Len(scanned) :
        LET l == scanned[k]
            part == selectedText(RangeOf(l), l, lineAt(docBefore, l))
            index == Locate(part.text)
        IN  IF index = -1
            THEN \A i \in 1..Len(positions) : positions[i].line # l
            ELSE \E i \in 1..Len(positions) :
                    positions[i] = Position(l, index + part.selectionStartChar)

C7_FallbackBareMarker == (FallbackUsed /\ ScanOver) => RecordedBy(FirstBareMarker)

(***************************************************************************)
(* C7 amended: for a language that is not in the table the match recorded  *)
(* on a line is the first '/' that is followed by '/' or '*'; the lookup   *)
(* yields a pattern that compiles for every language identifier.           *)
(***************************************************************************)
C7_FallbackCommentStart ==
    /\ (FallbackUsed /\ ScanOver) => RecordedBy(FirstCommentStart)
    /\ (command = "alignComments" /\ editor) =>
          /\ pattern # Null
          /\ prompts = 0
          /\ \A i \in 1..Len(messages) :
                messages[i].kind \notin {"InvalidPattern", "InvalidArgument"}
    /\ (command = "alignComments" /\ editor /\ pc = "resolved") =>
          \A id \in DOMAIN COMMENT_PATTERNS \cup LanguageIds :
              ~createRegExp(Str(CommentPattern(id))).pattern.isNull

C7_Witness ==
    /\ FallbackUsed
    /\ Aligned
    /\ edits # <<>>
    /\ \E i \in 1..Len(positions) :
          FirstBareMarker(lineAt(docBefore, positions[i].line)) # positions[i].character

(***************************************************************************)
(* C8: with M the maximum recorded column, an entry at column M gets no    *)
(* insertion and an entry at column C < M gets one insertion, of M - C     *)
(* space characters at its (line, C); at least one entry gets none.        *)
(***************************************************************************)
C8_SpacesInserted ==
    Aligned =>
        LET M == AlignmentColumn
            of(i) == {e \in 1..Len(edits) : edits[e].position.line = positions[i].line}
        IN  /\ Len(positions) >= 2
            /\ \A i \in 1..Len(positions) :
                  LET C == positions[i].character IN
                  IF C = M THEN of(i) = {}
                  ELSE /\ M - C >= 1
                       /\ Cardinality(of(i)) = 1
                       /\ \A e \in of(i) :
                            /\ edits[e].position = positions[i]
                            /\ Len(edits[e].text) = M - C
                            /\ Range(edits[e].text) = {" "}
            /\ \E i \in 1..Len(positions) : of(i) = {}
            /\ Len(edits) = Cardinality({i \in 1..Len(positions) : positions[i].character < M})

C8_Witness ==
    /\ Aligned
    /\ Len(edits) = 2
    /\ Len(edits[1].text) # Len(edits[2].text)

(***************************************************************************)
(* C9: the insertions of one invocation are on distinct lines, at the      *)
(* columns the matches had before any edit, and applied to the former      *)
(* buffer in any order they give the buffer the command leaves.            *)
(***************************************************************************)
Orders(n) == {f \in [1..n -> 1..n] : \A i, j \in 1..n : i # j => f[i] # f[j]}

RECURSIVE ApplyInOrder(_, _, _, _)
ApplyInOrder(document, es, order, k) ==
    IF k > Len(es) THEN document
    ELSE ApplyInOrder(Insert(document, es[order[k]].position, es[order[k]].text),
                      es, order, k + 1)

C9_OrderIndependent ==
    Aligned =>
        /\ Distinct([e \in 1..Len(edits) |-> edits[e].position.line])
        /\ \A e \in 1..Len(edits) :
              LET l == edits[e].position.line IN
              matchChar(pattern, RangeOf(l), l, lineAt(docBefore, l))
                  = edits[e].position.character
        /\ \A order \in Orders(Len(edits)) :
              ApplyInOrder(docBefore, edits, order, 1) = doc

C9_Witness ==
    /\ Aligned
    /\ Len(edits) >= 2
    /\ ~SingleCursor

(***************************************************************************)
(* C10: the input box, when shown, has closed before the selections are    *)
(* read, a line is scanned or an insertion is issued; an insertion is      *)
(* issued only after every line has been scanned and at least 2 matches    *)
(* have been counted, and no line is scanned after an insertion.           *)
(***************************************************************************)
At(step) == {i \in 1..Len(log) : log[i] = step}

C10_Ordering ==
    /\ prompts > 0 =>
          \A i \in At("selections") \cup At("scan") \cup At("insert") :
              \E j \in At("inputBoxClosed") : j < i
    /\ \A i \in At("insert") :
          /\ \A j \in At("scan") : j < i
          /\ \E j \in At("count") : j < i
          /\ Len(positions) >= 2
          /\ Range(scanned) = ResolvedLines
    /\ Len(edits) = Cardinality(At("insert"))

C10_Witness ==
    /\ prompts = 1
    /\ Aligned
    /\ edits # <<>>
    /\ Len(scanned) = 3

====
